---- MODULE Spec2Model ----
(***************************************************************************)
(* A model of crawlers/ssc_crawler.py: the SoccerStatsCrawler pipeline     *)
(* (get_leagues, analyze_leagues, _crawl_leagues, _crawl_seasons, _crawl)  *)
(* and its extractors (_get_seasons, _get_teams).                          *)
(*                                                                         *)
(* Text on which the code runs substring tests, splits or concatenations   *)
(* (urls, hrefs, team names) is a sequence of one-character strings; text  *)
(* that is only copied (country, league name, season year) is a string.    *)
(***************************************************************************)
EXTENDS Integers, Sequences, FiniteSets, TLC

VARIABLES
    pc,            \* position of the caller / analyze_leagues
    menu,          \* the site's menu page: the optgroups of form MenuList
    kind,          \* the site: for each league of the menu, its page's shape
    leagues,       \* the list of league dicts (mutated in place)
    round,         \* which fetch round _crawl is serving: "none", "leagues", "seasons"
    urls,          \* _crawl's parameter urls
    future,        \* per round, _crawl's list future (one entry per submitted request)
    result,        \* _crawl's list result
    overtaken,     \* whether a request of the round finished before an earlier one
    leagues_mp,    \* analyze_leagues' leagues_mp
    seasons_mpgs,  \* analyze_leagues' seasons_mpgs
    index,         \* analyze_leagues' index
    li,            \* position of "for league in leagues" (line 80)
    si,            \* position of "for season in league['seasons']" (line 81)
    exc,           \* the exception that ended the run, "none" while there is none
    seed,          \* what get_leagues' request did: "pending", "ok" or the exception raised
    fpc,           \* extractor harness: "idle", "call", "done"
    fn_arg,        \* extractor harness: the page handed to the extractor
    fn_ret         \* extractor harness: what the extractor returned or raised

vars == <<pc, menu, kind, leagues, round, urls, future, result, overtaken,
          leagues_mp, seasons_mpgs, index, li, si, exc, seed, fpc, fn_arg, fn_ret>>

pipeVars == <<pc, menu, kind, leagues, round, urls, future, result, overtaken,
              leagues_mp, seasons_mpgs, index, li, si, exc, seed>>

fnVars == <<fpc, fn_arg, fn_ret>>

----------------------------------------------------------------------------
(* Bounds of the model *)

MaxLeagues == 2     \* leagues in the menu outside the favourites group
MaxSeasons == 2     \* 'latest' links in a league page's dropdown
MaxFetch == 4       \* season urls of one site, the size of the teams round
MaxLinks == 3       \* links of a dropdown handed to _get_seasons alone
MaxAnchors == 3     \* anchor matches handed to _get_teams alone
MaxGroups == 3      \* optgroups of a menu handed to get_leagues alone

WORKERS == 2        \* cons.WORKERS, max_workers of the FuturesSession

----------------------------------------------------------------------------
(* Text *)

SOCCER_STATS_URL ==
    <<"h","t","t","p","s",":","/","/","w","w","w",".","s","o","c","c","e","r",
      "s","t","a","t","s",".","c","o","m","/">>

CURRENT_SEASON == "current"

Digits == <<"1","2","3","4","5","6","7","8","9">>

\* Python's  sub in s
Contains(s, sub) ==
    \E i \in 0..(Len(s) - Len(sub)) : SubSeq(s, i + 1, i + Len(sub)) = sub

\* Python's  s.split(sep)[0] : the text before the first sep, all of s if none
SplitFirst(s, sep) ==
    IF Contains(s, sep)
    THEN LET i == CHOOSE k \in 0..(Len(s) - Len(sep)) :
                     /\ SubSeq(s, k + 1, k + Len(sep)) = sep
                     /\ \A j \in 0..(k - 1) : SubSeq(s, j + 1, j + Len(sep)) # sep
         IN SubSeq(s, 1, i)
    ELSE s

\* Python's  s.strip()
RECURSIVE LStrip(_)
LStrip(s) == IF s # <<>> /\ Head(s) = " " THEN LStrip(Tail(s)) ELSE s

RECURSIVE RStrip(_)
RStrip(s) ==
    IF s # <<>> /\ s[Len(s)] = " " THEN RStrip(SubSeq(s, 1, Len(s) - 1)) ELSE s

Strip(s) == RStrip(LStrip(s))

----------------------------------------------------------------------------
(* What a call hands back: a value, or an exception *)

Return(v) == [exc |-> "none", val |-> v]
Raise(e) == [exc |-> e, val |-> <<>>]

----------------------------------------------------------------------------
(* _get_seasons, lines 147-173.  A page is                                 *)
(*   dropdowns : the div.dropdown-content elements of the document, each   *)
(*               the sequence of its <a>: [href, text]                     *)
(*   og_urls   : the contents of the meta og:url elements                  *)
(*   anchors   : the matches of _get_teams' pattern, <<href, name>>        *)
(* soup.find gives the first element, or None when there is none.          *)

latest == <<"l","a","t","e","s","t">>

SeasonOf(season_raw) ==
    [url |-> SOCCER_STATS_URL \o season_raw.href, year |-> season_raw.text]

KeepAllSeasons(season) == TRUE

\* line 161: the season is kept unless 'latest' not in season['url']
KeepSeason(season) == Contains(season.url, latest)

\* lines 157-164
ScanSeasons(seasons_raw) ==
    SelectSeq([i \in 1..Len(seasons_raw) |-> SeasonOf(seasons_raw[i])], KeepSeason)

NoFallback(soup, league_mpg) == Return(<<>>)

\* lines 166-171
FallbackSeason(soup, league_mpg) ==
    IF soup.og_urls = <<>>
    THEN Raise("AttributeError")     \* line 169: None has no attrs
    ELSE Return(<< [url |-> Head(soup.og_urls), year |-> CURRENT_SEASON] >>)

_get_seasons(league_mpg) ==
    LET soup == league_mpg.content                       \* line 153
    IN IF soup.dropdowns = <<>>
       THEN Raise("AttributeError")  \* line 155: None has no find_all
       ELSE LET seasons == ScanSeasons(Head(soup.dropdowns))
            IN IF seasons = <<>> THEN FallbackSeason(soup, league_mpg)
               ELSE Return(seasons)

----------------------------------------------------------------------------
(* _get_teams, lines 175-195 *)

dot == <<".">>
title == <<"t","i","t","l","e">>
quote_title == <<"'"," ","t","i","t","l","e">>

\* lines 188-191
TeamUrl(href0) ==
    IF Contains(href0, title)
    THEN SOCCER_STATS_URL \o Strip(SplitFirst(href0, quote_title))
    ELSE href0

TeamOf(href) == [name |-> href[2], url |-> TeamUrl(href[1])]

NeverSeen(team, all_teams) == FALSE

\* line 192: the team is appended when team not in all_teams
Seen(team, all_teams) == \E k \in 1..Len(all_teams) : all_teams[k] = team

\* lines 183-193, one iteration
TeamStep(all_teams, href) ==
    IF Contains(href[2], dot) THEN all_teams
    ELSE IF Seen(TeamOf(href), all_teams) THEN all_teams
    ELSE Append(all_teams, TeamOf(href))

RECURSIVE TeamLoop(_, _)
TeamLoop(all_teams, all_hrefs) ==
    IF all_hrefs = <<>> THEN all_teams
    ELSE TeamLoop(TeamStep(all_teams, Head(all_hrefs)), Tail(all_hrefs))

\* line 182: all_hrefs is the list of the pattern's matches in season_mpg.text
_get_teams(season_mpg) == TeamLoop(<<>>, season_mpg.content.anchors)

----------------------------------------------------------------------------
(* Exceptions.  Bases(e) is the set of classes e is an instance of.  The   *)
(* module imports requests, not requests' ConnectionError (lines 1-11), so *)
(* the name ConnectionError at line 45 is the builtin class.               *)

Bases(e) ==
    CASE e = "ConnectionError" ->
            {"ConnectionError", "OSError", "Exception", "BaseException"}
      [] e = "requests.ConnectionError" ->
            {"requests.ConnectionError", "requests.RequestException", "OSError",
             "Exception", "BaseException"}
      [] e = "AttributeError" -> {"AttributeError", "Exception", "BaseException"}
      [] e = "IndexError" ->
            {"IndexError", "LookupError", "Exception", "BaseException"}
      [] e = "SystemExit" -> {"SystemExit", "BaseException"}

IsInstance(e, cls) == cls \in Bases(e)

\* what a request of the session can raise
RequestErrors == {"ConnectionError", "requests.ConnectionError"}

\* line 45: except ConnectionError
SeedCaught(e) == IsInstance(e, "ConnectionError")

CaughtBuiltinOnly(e) == IsInstance(e, "ConnectionError")

\* lines 100 and 121: except Exception
RoundCaught(e) == IsInstance(e, "Exception")

----------------------------------------------------------------------------
(* The site.  League n of the menu has the relative path LeagueValue(n);   *)
(* kind[n] is the shape of its page: whether it has a seasons dropdown and *)
(* how many 'latest' links the dropdown holds.                             *)

LeagueValue(n) == <<"l", Digits[n]>>
LeagueUrl(n) == SOCCER_STATS_URL \o LeagueValue(n)

Option(n) == [name |-> Digits[n], value |-> LeagueValue(n)]

\* a menu of n leagues: the favourites group repeats the first league, the
\* first k leagues are in one country's group and the others in another's
MenuOf(n, k) ==
    << [label |-> "Favourite leagues",
        options |-> [i \in 1..(IF n > 0 THEN 1 ELSE 0) |-> Option(i)]],
       [label |-> "England", options |-> [i \in 1..k |-> Option(i)]],
       [label |-> "Spain", options |-> [i \in 1..(n - k) |-> Option(k + i)]] >>

\* the menus of the sites crawled: the leagues split evenly over two groups
Menus == { MenuOf(n, (n + 1) \div 2) : n \in 0..MaxLeagues }

Shapes == {[dropdown |-> FALSE, nlatest |-> 0]} \cup
          {[dropdown |-> TRUE, nlatest |-> m] : m \in 0..MaxSeasons}

SeasonLink(n, j) ==
    [href |-> latest \o <<"?">> \o LeagueValue(n) \o <<"_", Digits[j]>>,
     text |-> Digits[j]]

OtherLink(n) == [href |-> <<"r", "?">> \o LeagueValue(n), text |-> "results"]

LeaguePage(n, shape) ==
    [dropdowns |-> IF shape.dropdown
                   THEN << <<OtherLink(n)>> \o
                           [j \in 1..shape.nlatest |-> SeasonLink(n, j)] >>
                   ELSE <<>>,
     og_urls |-> <<LeagueUrl(n)>>,
     anchors |-> << <<LeagueValue(n) \o quote_title \o <<"=", "'", "x">>, <<"T">>>>,
                    <<LeagueValue(n) \o quote_title \o <<"=", "'", "y">>, <<"T">>>>,
                    <<LeagueValue(n), <<"T", ".">>>> >>]

SeasonPage(u) ==
    [dropdowns |-> <<>>,
     og_urls |-> <<u>>,
     anchors |-> << <<u \o <<"/", "a">>, <<"A">>>>,
                    <<u \o <<"/", "a">>, <<"A", ".">>>>,
                    <<u \o <<"/", "b">>, <<"B">>>>,
                    <<u \o <<"/", "a">>, <<"A">>>> >>]

\* the number of seasons _get_seasons finds on the league pages of a site
SiteSeasons(k) ==
    LET size(n) == IF k[n].nlatest = 0 THEN 1 ELSE k[n].nlatest
        sum[n \in 0..Len(k)] == IF n = 0 THEN 0 ELSE sum[n - 1] + size(n)
    IN sum[Len(k)]

\* the page the site serves for url u
Web(u) ==
    IF \E n \in DOMAIN kind : u = LeagueUrl(n)
    THEN LET n == CHOOSE m \in DOMAIN kind : u = LeagueUrl(m)
         IN LeaguePage(n, kind[n])
    ELSE SeasonPage(u)

\* a requests.Response
Response(u) == [url |-> u, content |-> Web(u)]

NoResponse == [url |-> <<>>, content |-> SeasonPage(<<>>)]

----------------------------------------------------------------------------
(* get_leagues, lines 36-67 *)

SkipNoGroup(country) == FALSE

\* line 55
SkippedGroup(country) == country = "Favourite leagues"

\* lines 57-63
LeaguesOfGroup(data) ==
    [i \in 1..Len(data.options) |->
        [country |-> data.label,
         name |-> data.options[i].name,
         url |-> SOCCER_STATS_URL \o data.options[i].value]]

\* lines 52-63
RECURSIVE AllLeagues(_)
AllLeagues(raw_data) ==
    IF raw_data = <<>> THEN <<>>
    ELSE (IF SkippedGroup(Head(raw_data).label) THEN <<>>
          ELSE LeaguesOfGroup(Head(raw_data))) \o AllLeagues(Tail(raw_data))

\* the leagues of a menu outside the favourites group
NumLeagues(m) == Len(m[2].options) + Len(m[3].options)

\* the request of line 44 succeeds, or raises
GetLeagues ==
    /\ pc = "get_leagues"
    /\ \E outcome \in {"ok"} \cup RequestErrors :
          /\ seed' = outcome
          /\ IF outcome = "ok"
             THEN /\ leagues' = AllLeagues(menu)
                  /\ pc' = "got_leagues"
                  /\ exc' = exc
             ELSE IF SeedCaught(outcome)
             THEN /\ leagues' = <<>>                 \* line 48
                  /\ pc' = "got_leagues"
                  /\ exc' = exc
             ELSE /\ leagues' = leagues              \* the exception escapes
                  /\ pc' = "crashed"
                  /\ exc' = outcome
    /\ UNCHANGED <<menu, kind, round, urls, future, result, overtaken,
                   leagues_mp, seasons_mpgs, index, li, si, fnVars>>

----------------------------------------------------------------------------
(* _crawl, lines 130-145, and the requests of its FuturesSession *)

\* the fetch rounds: line 74 and line 78
Rounds == {"leagues", "seasons"}

NewFuture(url) == [url |-> url, state |-> "queued", exc |-> "none"]

Running(r) == {k \in 1..Len(future[r]) : future[r][k].state = "running"}
Queued(r) == {k \in 1..Len(future[r]) : future[r][k].state = "queued"}
Failed(r) == {k \in 1..Len(future[r]) : future[r][k].state = "failed"}
Finished(r) == {k \in 1..Len(future[r]) : future[r][k].state \in {"done", "failed"}}

\* lines 136-138, on entry
EnterCrawl(r, us) ==
    /\ round' = r
    /\ urls' = us
    /\ future' = [future EXCEPT ![r] = <<>>]
    /\ result' = <<>>
    /\ overtaken' = FALSE
    /\ pc' = "crawl"

FirstUrlAgain(fut, us) == us[1]

\* line 140: for url in urls
UrlToSubmit(fut, us) == us[Len(fut) + 1]

\* line 141: future.append(ses.get(url=url))
Submit ==
    /\ pc = "crawl"
    /\ Len(future[round]) < Len(urls)
    /\ future' = [future EXCEPT
                    ![round] = Append(@, NewFuture(UrlToSubmit(future[round], urls)))]
    /\ UNCHANGED <<pc, menu, kind, leagues, round, urls, result, overtaken,
                   leagues_mp, seasons_mpgs, index, li, si, exc, seed, fnVars>>

AlwaysFreeWorker(r) == TRUE

\* line 138: max_workers=cons.WORKERS
FreeWorker(r) == Cardinality(Running(r)) < WORKERS

\* a worker of a round's pool takes the oldest queued request
Start ==
    /\ \E r \in Rounds :
          /\ Queued(r) # {}
          /\ FreeWorker(r)
          /\ LET k == CHOOSE q \in Queued(r) : \A o \in Queued(r) : q <= o
             IN future' = [future EXCEPT ![r][k].state = "running"]
    /\ UNCHANGED <<pc, menu, kind, leagues, round, urls, result, overtaken,
                   leagues_mp, seasons_mpgs, index, li, si, exc, seed, fnVars>>

\* a running request completes, with a response or with an error
Complete ==
    /\ \E r \in Rounds : \E k \in Running(r) :
          /\ overtaken' = (overtaken \/ (r = round /\ \E j \in 1..(k - 1) :
                                future[r][j].state \in {"queued", "running"}))
          /\ \E outcome \in {"ok"} \cup RequestErrors :
                LET f == future[r][k]
                IN future' = [future EXCEPT ![r][k] =
                                IF outcome = "ok"
                                THEN [f EXCEPT !.state = "done"]
                                ELSE [f EXCEPT !.state = "failed",
                                               !.exc = outcome]]
    /\ UNCHANGED <<pc, menu, kind, leagues, round, urls, result, leagues_mp,
                   seasons_mpgs, index, li, si, exc, seed, fnVars>>

LastUncollected(fut, res) == Len(fut) - Len(res)

\* lines 142-143: the future whose result() is taken next
NextToCollect(fut, res) == Len(res) + 1

ResultNotAwaited(f) == TRUE

\* line 143: resp.result() blocks until the request is finished
ResultReady(f) == f.state = "done"

\* line 143: result.append(resp.result()); result() gives the response of a
\* request that is done and re-raises the error of one that failed, which
\* leaves _crawl and reaches the except clause of line 100 or 121
Collect ==
    /\ pc = "crawl"
    /\ Len(future[round]) = Len(urls)
    /\ Len(result) < Len(urls)
    /\ LET f == future[round][NextToCollect(future[round], result)]
       IN \/ /\ ResultReady(f)
             /\ result' = Append(result, Response(f.url))
             /\ UNCHANGED <<pc, exc>>
          \/ /\ f.state = "failed"
             /\ IF RoundCaught(f.exc)
                THEN pc' = "exit" /\ exc' = "SystemExit"      \* lines 103, 124
                ELSE pc' = "crashed" /\ exc' = f.exc
             /\ UNCHANGED result
    /\ UNCHANGED <<menu, kind, leagues, round, urls, future, overtaken,
                   leagues_mp, seasons_mpgs, index, li, si, seed, fnVars>>

----------------------------------------------------------------------------
(* analyze_leagues, _crawl_leagues, _crawl_seasons, lines 69-128 *)

ReplaceWith(d, key, val) == (key :> val)

\* a dict with d[key] = val
SetItem(d, key, val) == (key :> val) @@ d

HasKey(d, key) == key \in DOMAIN d

\* lines 94-96
LeaguesUrls(ls) == [i \in 1..Len(ls) |-> ls[i].url]

UrlsOf(seasons) == [j \in 1..Len(seasons) |-> seasons[j].url]

RECURSIVE SeasonUrlsLeaguesReversed(_)
SeasonUrlsLeaguesReversed(ls) ==
    IF ls = <<>> THEN <<>>
    ELSE SeasonUrlsLeaguesReversed(Tail(ls)) \o UrlsOf(Head(ls).seasons)

\* lines 114-117
RECURSIVE SeasonUrls(_)
SeasonUrls(ls) ==
    IF ls = <<>> THEN <<>>
    ELSE UrlsOf(Head(ls).seasons) \o SeasonUrls(Tail(ls))

NoLeagueFrom(ls, l) == Len(ls) + 1

\* lines 80-81: the first league at or after l that has a season, Len + 1 if none
FirstLeagueFrom(ls, l) ==
    LET with == {m \in l..Len(ls) : ls[m].seasons # <<>>}
    IN IF with = {} THEN Len(ls) + 1
       ELSE CHOOSE m \in with : \A o \in with : m <= o

\* lines 74, 94-99: _crawl_leagues calls _crawl
CrawlLeagues ==
    /\ pc = "got_leagues"
    /\ EnterCrawl("leagues", LeaguesUrls(leagues))
    /\ UNCHANGED <<menu, kind, leagues, leagues_mp, seasons_mpgs, index, li, si,
                   exc, seed, fnVars>>

\* line 145, then lines 105-107 and 74-75, or lines 126-128 and 78-80
CrawlReturn ==
    /\ pc = "crawl"
    /\ Len(future[round]) = Len(urls)
    /\ Len(result) = Len(urls)
    /\ index' = 0
    /\ IF round = "leagues"
       THEN /\ leagues_mp' = result
            /\ pc' = "assign_seasons"
            /\ UNCHANGED <<seasons_mpgs, li, si>>
       ELSE /\ seasons_mpgs' = result
            /\ pc' = "assign_teams"
            /\ li' = FirstLeagueFrom(leagues, 1)
            /\ si' = 1
            /\ UNCHANGED leagues_mp
    /\ UNCHANGED <<menu, kind, leagues, round, urls, future, result, overtaken,
                   exc, seed, fnVars>>

MpgOfFirst(mp, i) == mp[1]

\* line 76: leagues_mp[index]
MpgOf(mp, i) == mp[i + 1]

\* lines 75-76, one iteration
AssignSeasons ==
    /\ pc = "assign_seasons"
    /\ index < Len(leagues)
    /\ LET r == _get_seasons(MpgOf(leagues_mp, index))
       IN IF r.exc = "none"
          THEN /\ leagues' = [leagues EXCEPT
                                ![index + 1] = SetItem(@, "seasons", r.val)]
               /\ index' = index + 1
               /\ UNCHANGED <<pc, exc>>
          ELSE /\ pc' = "crashed"              \* the exception escapes
               /\ exc' = r.exc
               /\ UNCHANGED <<leagues, index>>
    /\ UNCHANGED <<menu, kind, round, urls, future, result, overtaken,
                   leagues_mp, seasons_mpgs, li, si, seed, fnVars>>

\* lines 78, 114-120: _crawl_seasons calls _crawl
CrawlSeasons ==
    /\ pc = "assign_seasons"
    /\ index = Len(leagues)
    /\ EnterCrawl("seasons", SeasonUrls(leagues))
    /\ UNCHANGED <<menu, kind, leagues, leagues_mp, seasons_mpgs, index, li, si,
                   exc, seed, fnVars>>

SameIndex(i) == i

\* line 83: index += 1
NextIndex(i) == i + 1

\* lines 81-83, one iteration
AssignTeams ==
    /\ pc = "assign_teams"
    /\ li <= Len(leagues)
    /\ IF index < Len(seasons_mpgs)
       THEN /\ leagues' = [leagues EXCEPT
                             ![li].seasons[si] =
                                SetItem(@, "teams", _get_teams(seasons_mpgs[index + 1]))]
            /\ index' = NextIndex(index)
            /\ IF si < Len(leagues[li].seasons)
               THEN li' = li /\ si' = si + 1
               ELSE li' = FirstLeagueFrom(leagues, li + 1) /\ si' = 1
            /\ UNCHANGED <<pc, exc>>
       ELSE /\ pc' = "crashed"                 \* seasons_mpgs[index] out of range
            /\ exc' = "IndexError"
            /\ UNCHANGED <<leagues, index, li, si>>
    /\ UNCHANGED <<menu, kind, round, urls, future, result, overtaken,
                   leagues_mp, seasons_mpgs, seed, fnVars>>

\* lines 85-87
ReturnLeagues ==
    /\ pc = "assign_teams"
    /\ li > Len(leagues)
    /\ pc' = "returned"
    /\ UNCHANGED <<menu, kind, leagues, round, urls, future, result, overtaken,
                   leagues_mp, seasons_mpgs, index, li, si, exc, seed, fnVars>>

----------------------------------------------------------------------------
(* The pipeline: get_leagues, then analyze_leagues on the list it returned *)

FnIdle ==
    /\ fpc = "idle"
    /\ fn_arg = NoResponse
    /\ fn_ret = Return(<<>>)

Init ==
    /\ menu \in Menus
    /\ kind \in [1..NumLeagues(menu) -> Shapes]
    /\ SiteSeasons(kind) <= MaxFetch
    /\ pc = "get_leagues"
    /\ leagues = <<>>
    /\ round = "none"
    /\ urls = <<>>
    /\ future = [r \in {"leagues", "seasons"} |-> <<>>]
    /\ result = <<>>
    /\ overtaken = FALSE
    /\ leagues_mp = <<>>
    /\ seasons_mpgs = <<>>
    /\ index = 0
    /\ li = 1
    /\ si = 1
    /\ exc = "none"
    /\ seed = "pending"
    /\ FnIdle

Next ==
    \/ GetLeagues
    \/ CrawlLeagues
    \/ Submit
    \/ Start
    \/ Complete
    \/ Collect
    \/ CrawlReturn
    \/ AssignSeasons
    \/ CrawlSeasons
    \/ AssignTeams
    \/ ReturnLeagues

Spec == Init /\ [][Next]_vars

\* the pool's worker threads keep taking queued requests (line 138), and a
\* request that is running ends with a response or an error
FairSpec == Spec /\ WF_vars(Start) /\ WF_vars(Complete)

----------------------------------------------------------------------------
(* The extractors alone: _get_seasons and _get_teams are static methods,  *)
(* called here on every page of a bounded set with no pipeline running.    *)

PipeIdle ==
    /\ pc = "idle"
    /\ menu = MenuOf(0, 0)
    /\ kind = <<>>
    /\ leagues = <<>>
    /\ round = "none"
    /\ urls = <<>>
    /\ future = [r \in {"leagues", "seasons"} |-> <<>>]
    /\ result = <<>>
    /\ overtaken = FALSE
    /\ leagues_mp = <<>>
    /\ seasons_mpgs = <<>>
    /\ index = 0
    /\ li = 1
    /\ si = 1
    /\ exc = "none"
    /\ seed = "pending"

SeqsUpTo(S, n) == UNION { [1..m -> S] : m \in 0..n }

\* links of a dropdown: two 'latest' links, a link to another page, and a link
\* whose href holds only the beginning of the marker
Links ==
    { SeasonLink(1, 1), SeasonLink(1, 2), OtherLink(1),
      [href |-> <<"l", "a", "t", "e">>, text |-> "late"] }

LeagueResponses ==
    { [url |-> LeagueUrl(1),
       content |-> [dropdowns |-> dd, og_urls |-> og, anchors |-> <<>>]] :
         dd \in {<<>>} \cup { <<d>> : d \in SeqsUpTo(Links, MaxLinks) },
         og \in { <<>>, <<LeagueUrl(1)>>, <<LeagueUrl(2)>> } }

InitSeasons ==
    /\ PipeIdle
    /\ fpc = "call"
    /\ fn_arg \in LeagueResponses
    /\ fn_ret = Return(<<>>)

CallGetSeasons ==
    /\ fpc = "call"
    /\ fn_ret' = _get_seasons(fn_arg)
    /\ fpc' = "done"
    /\ UNCHANGED <<fn_arg, pipeVars>>

NextSeasons == CallGetSeasons

SpecSeasons == InitSeasons /\ [][NextSeasons]_vars

\* matches of the pattern of line 182, <<first group, second group>>
Anchors ==
    { << <<"x">>, <<"A">> >>,
      << <<"x", "'", " ", "t", "i", "t", "l", "e", "=", "'", "p">>, <<"A">> >>,
      << <<"x", "'", " ", "t", "i", "t", "l", "e", "=", "'", "q">>, <<"A">> >>,
      << <<" ", "x", " ", "'", " ", "t", "i", "t", "l", "e">>, <<"A">> >>,
      << <<"t", "i", "t", "l", "e">>, <<"B">> >>,
      << <<"x">>, <<"A", ".">> >>,
      << <<"y">>, <<"B">> >> }

SeasonResponses ==
    { [url |-> LeagueUrl(1),
       content |-> [dropdowns |-> <<>>, og_urls |-> <<>>, anchors |-> hs]] :
         hs \in SeqsUpTo(Anchors, MaxAnchors) }

InitTeams ==
    /\ PipeIdle
    /\ fpc = "call"
    /\ fn_arg \in SeasonResponses
    /\ fn_ret = Return(<<>>)

CallGetTeams ==
    /\ fpc = "call"
    /\ fn_ret' = Return(_get_teams(fn_arg))
    /\ fpc' = "done"
    /\ UNCHANGED <<fn_arg, pipeVars>>

NextTeams == CallGetTeams

SpecTeams == InitTeams /\ [][NextTeams]_vars

----------------------------------------------------------------------------
(* get_leagues alone, on every menu of a bounded set *)

\* optgroups of a menu: the favourites group (with and without an entry) and
\* two countries' groups, one of them also empty
Groups ==
    { [label |-> "Favourite leagues", options |-> <<Option(1)>>],
      [label |-> "Favourite leagues", options |-> <<>>],
      [label |-> "England", options |-> <<Option(1), Option(2)>>],
      [label |-> "Spain", options |-> <<Option(3)>>],
      [label |-> "Spain", options |-> <<>>] }

MenuPages == SeqsUpTo(Groups, MaxGroups)

InitLeagues ==
    /\ menu \in MenuPages
    /\ kind = <<>>
    /\ pc = "get_leagues"
    /\ leagues = <<>>
    /\ round = "none"
    /\ urls = <<>>
    /\ future = [r \in {"leagues", "seasons"} |-> <<>>]
    /\ result = <<>>
    /\ overtaken = FALSE
    /\ leagues_mp = <<>>
    /\ seasons_mpgs = <<>>
    /\ index = 0
    /\ li = 1
    /\ si = 1
    /\ exc = "none"
    /\ seed = "pending"
    /\ FnIdle

NextLeagues == GetLeagues

SpecLeagues == InitLeagues /\ [][NextLeagues]_vars

----------------------------------------------------------------------------
(* Properties *)

\* the list the last call of _crawl returned to analyze_leagues
Returned == IF round = "leagues" THEN leagues_mp ELSE seasons_mpgs

\* _crawl has returned its list and no later call of _crawl has begun
CrawlHasReturned ==
    \/ round = "leagues" /\ pc = "assign_seasons"
    \/ round = "leagues" /\ pc = "crashed" /\ exc = "AttributeError"
    \/ round = "seasons" /\ pc \in {"assign_teams", "returned"}

AllDone(r) == \A k \in 1..Len(future[r]) : future[r][k].state = "done"

\* C1: when _crawl returns, its list is as long as urls and its i-th entry is
\* the response to urls[i], whatever the order in which the requests finished
C1_ResultOrder ==
    CrawlHasReturned =>
        /\ Len(Returned) = Len(urls)
        /\ \A i \in 1..Len(urls) :
              /\ future[round][i].url = urls[i]
              /\ Returned[i].url = urls[i]
              /\ Returned[i].content = Web(urls[i])

C1_Witness ==
    /\ CrawlHasReturned
    /\ round = "seasons"
    /\ Len(urls) >= 3
    /\ overtaken

\* the number of seasons of the leagues before league l
RECURSIVE Offset(_, _)
Offset(ls, l) == IF l <= 1 THEN 0 ELSE Offset(ls, l - 1) + Len(ls[l - 1].seasons)

SeasonsSet == \A l \in 1..Len(leagues) : HasKey(leagues[l], "seasons")

TeamsSet ==
    /\ SeasonsSet
    /\ \A l \in 1..Len(leagues) : \A j \in 1..Len(leagues[l].seasons) :
          HasKey(leagues[l].seasons[j], "teams")

\* C2: the season urls are fetched leagues in list order, then seasons in list
\* order, and every season's teams are those of the response to its own url
C2_TeamsFromOwnUrl ==
    /\ round = "seasons" =>
          /\ Len(urls) = Offset(leagues, Len(leagues) + 1)
          /\ \A l \in 1..Len(leagues) : \A j \in 1..Len(leagues[l].seasons) :
                urls[Offset(leagues, l) + j] = leagues[l].seasons[j].url
    /\ \A l \in 1..Len(leagues) :
          HasKey(leagues[l], "seasons") =>
             \A j \in 1..Len(leagues[l].seasons) :
                LET season == leagues[l].seasons[j]
                IN HasKey(season, "teams") =>
                      season.teams = _get_teams(Response(season.url))
    /\ pc = "returned" => TeamsSet

C2_Witness ==
    /\ pc = "returned"
    /\ Len(leagues) = 2
    /\ TeamsSet
    /\ Len(leagues[1].seasons) = 1
    /\ Len(leagues[2].seasons) = 2
    /\ overtaken

YearAndUrl(seasons) ==
    [j \in 1..Len(seasons) |-> [url |-> seasons[j].url, year |-> seasons[j].year]]

\* C3: the seasons of leagues[i] are those of the response to leagues[i]['url']
C3_SeasonsFromOwnPage ==
    \A i \in 1..Len(leagues) :
        HasKey(leagues[i], "seasons") =>
           LET own == _get_seasons(Response(leagues[i].url))
           IN /\ own.exc = "none"
              /\ YearAndUrl(leagues[i].seasons) = own.val

C3_Witness ==
    /\ pc = "assign_seasons"
    /\ Len(leagues) = 2
    /\ SeasonsSet
    /\ leagues[1].seasons # leagues[2].seasons
    /\ overtaken

\* C4: when the request of get_leagues raises a connectivity error,
\* get_leagues returns an empty list and no exception escapes it
C4_SeedErrorGivesEmptyList ==
    seed \in RequestErrors =>
        /\ pc # "crashed"
        /\ exc = "none"
        /\ leagues = <<>>

\* C5: a fetch error in either round ends the run with SystemExit, and
\* analyze_leagues returns only when every fetch of both rounds succeeded
C5_FetchErrorIsFatal ==
    /\ \A r \in Rounds :
          Failed(r) # {} =>
             /\ round = r
             /\ \/ pc = "crawl"
                \/ pc = "exit" /\ exc = "SystemExit"
    /\ pc = "returned" =>
          /\ Len(future["leagues"]) = Len(leagues)
          /\ Len(future["seasons"]) = Offset(leagues, Len(leagues) + 1)
          /\ \A r \in Rounds : AllDone(r)

C5_Witness ==
    /\ pc = "exit"
    /\ round = "seasons"
    /\ Failed("seasons") # {}
    /\ AllDone("leagues")
    /\ Len(leagues) = 2

\* C6 as stated: after a request failed, _crawl still returns a list as long
\* as urls, the failed request's slot holding a failure marker and every
\* other slot its own url's response
C6_FailureRecordedPerSlot ==
    (round # "none" /\ pc # "crawl" /\ Failed(round) # {}) =>
        /\ CrawlHasReturned
        /\ Len(Returned) = Len(urls)
        /\ \A i \in 1..Len(urls) :
              IF i \in Failed(round)
              THEN Returned[i] = NoResponse
              ELSE Returned[i] = Response(urls[i])

\* C6 amended: a failed request cancels no other request (all were submitted
\* before any result was taken, and each finishes in its own right), but
\* _crawl returns no list: result() raises the error of the lowest-indexed
\* failed request, and the results taken before it are their own urls'
C6_FailureRaised ==
    pc = "exit" =>
        LET k == Len(result) + 1
        IN /\ Len(future[round]) = Len(urls)
           /\ k \in Failed(round)
           /\ \A j \in 1..(k - 1) :
                 /\ future[round][j].state = "done"
                 /\ result[j] = Response(urls[j])
           /\ Returned = <<>>
           /\ \A j \in 1..Len(urls) : future[round][j].url = urls[j]

C6_Witness ==
    /\ pc = "exit"
    /\ Len(result) >= 1
    /\ \E j \in (Len(result) + 2)..Len(urls) : future[round][j].state = "done"
    /\ \E j \in (Len(result) + 2)..Len(urls) : future[round][j].state = "running"

LeaguesRoundCompleted ==
    /\ Len(future["leagues"]) = Len(leagues)
    /\ AllDone("leagues")
    /\ Len(leagues_mp) = Len(leagues)

SeasonsRoundCompleted ==
    /\ round = "seasons"
    /\ Len(future["seasons"]) = Len(urls)
    /\ AllDone("seasons")
    /\ Len(seasons_mpgs) = Len(urls)

FieldsOnlyAfterRound ==
    /\ \A l \in 1..Len(leagues) :
          HasKey(leagues[l], "seasons") => LeaguesRoundCompleted
    /\ \A l \in 1..Len(leagues) :
          HasKey(leagues[l], "seasons") =>
             \A j \in 1..Len(leagues[l].seasons) :
                HasKey(leagues[l].seasons[j], "teams") => SeasonsRoundCompleted

\* C7 as stated: on return and after a fatal abort, no league carries seasons
\* that lack teams, and fields are there only if their round completed
C7_NoPartialTree ==
    pc \in {"returned", "exit"} =>
        /\ \A l \in 1..Len(leagues) :
              HasKey(leagues[l], "seasons") =>
                 \A j \in 1..Len(leagues[l].seasons) :
                    HasKey(leagues[l].seasons[j], "teams")
        /\ FieldsOnlyAfterRound

\* C7 amended: on return every league has seasons and every season has teams,
\* and fields are there only if their round completed; after a fatal abort in
\* the teams round the list, mutated in place, holds seasons without teams
C7_CompleteOnReturn ==
    /\ pc = "returned" => TeamsSet
    /\ FieldsOnlyAfterRound
    /\ (pc = "exit" /\ round = "seasons") =>
          /\ SeasonsSet
          /\ \A l \in 1..Len(leagues) : \A j \in 1..Len(leagues[l].seasons) :
                ~HasKey(leagues[l].seasons[j], "teams")
          /\ \E l \in 1..Len(leagues) : leagues[l].seasons # <<>>

C7_Witness ==
    /\ pc = "exit"
    /\ round = "seasons"
    /\ Len(leagues) = 2
    /\ SeasonsSet
    /\ Len(leagues[1].seasons) = 2

\* the links of a dropdown whose url holds the marker
LatestAt(links) ==
    {i \in 1..Len(links) : Contains(SOCCER_STATS_URL \o links[i].href, latest)}

\* the k-th smallest member of S
Kth(S, k) == CHOOSE i \in S : Cardinality({j \in S : j < i}) = k - 1

\* C8: on a page with a dropdown, _get_seasons returns the links whose url
\* holds 'latest', in document order; when there is none it returns the one
\* season of year CURRENT_SEASON at the page's og:url
C8_SeasonsAreLatestLinks ==
    (fpc = "done" /\ fn_arg.content.dropdowns # <<>>) =>
        LET links == Head(fn_arg.content.dropdowns)
            L == LatestAt(links)
            og == fn_arg.content.og_urls
        IN IF L # {}
           THEN /\ fn_ret.exc = "none"
                /\ Len(fn_ret.val) = Cardinality(L)
                /\ \A k \in 1..Len(fn_ret.val) :
                      fn_ret.val[k] =
                         [url |-> SOCCER_STATS_URL \o links[Kth(L, k)].href,
                          year |-> links[Kth(L, k)].text]
           ELSE og # <<>> =>
                   fn_ret = Return(<< [url |-> Head(og), year |-> CURRENT_SEASON] >>)

C8_Witness ==
    /\ fpc = "done"
    /\ fn_arg.content.dropdowns = << <<OtherLink(1), SeasonLink(1, 1), SeasonLink(1, 2)>> >>
    /\ Len(fn_ret.val) = 2

\* C9: on a page with no dropdown, _get_seasons raises nothing and returns
\* the fallback season
C9_NoDropdownFallsBack ==
    (fpc = "done" /\ fn_arg.content.dropdowns = <<>> /\ fn_arg.content.og_urls # <<>>) =>
        fn_ret = Return(<< [url |-> Head(fn_arg.content.og_urls),
                            year |-> CURRENT_SEASON] >>)

\* C10: _get_teams returns the matches whose name holds no '.', each (name,
\* url) once, in order of first occurrence; no match gives no team
C10_TeamsDistinctInOrder ==
    fpc = "done" =>
        LET hs == fn_arg.content.anchors
            T(i) == [name |-> hs[i][2], url |-> TeamUrl(hs[i][1])]
            kept == {i \in 1..Len(hs) : ~Contains(hs[i][2], dot)}
            first == {i \in kept : \A j \in kept : j < i => T(j) # T(i)}
            teams == fn_ret.val
        IN /\ fn_ret.exc = "none"
           /\ \A a, b \in 1..Len(teams) : a # b => teams[a] # teams[b]
           /\ \A a \in 1..Len(teams) : ~Contains(teams[a].name, dot)
           /\ Len(teams) = Cardinality(first)
           /\ \A k \in 1..Len(teams) : teams[k] = T(Kth(first, k))
           /\ hs = <<>> => teams = <<>>

C10_Witness ==
    /\ fpc = "done"
    /\ Len(fn_arg.content.anchors) = 3
    /\ Len(fn_ret.val) = 1
    /\ fn_arg.content.anchors[1] # fn_arg.content.anchors[3]
    /\ Contains(fn_arg.content.anchors[2][2], dot)

\* the entries of a menu outside the favourites group, as <<group, entry>>
Entries(m) ==
    UNION { { <<g, i>> : i \in 1..Len(m[g].options) } :
            g \in {h \in 1..Len(m) : m[h].label # "Favourite leagues"} }

\* the place of entry p in group order, then entry order
Rank(m, p) ==
    1 + Cardinality({q \in Entries(m) :
                        q[1] < p[1] \/ (q[1] = p[1] /\ q[2] < p[2])})

\* C11: get_leagues returns one league {country, name, url = base url +
\* relative path} for every entry of every group but 'Favourite leagues', in
\* group order then entry order
C11_LeaguesOfMenu ==
    (pc = "got_leagues" /\ seed = "ok") =>
        /\ Len(leagues) = Cardinality(Entries(menu))
        /\ \A p \in Entries(menu) :
              leagues[Rank(menu, p)] =
                 [country |-> menu[p[1]].label,
                  name |-> menu[p[1]].options[p[2]].name,
                  url |-> SOCCER_STATS_URL \o menu[p[1]].options[p[2]].value]

C11_Witness ==
    /\ pc = "got_leagues"
    /\ seed = "ok"
    /\ Len(menu) = 3
    /\ menu[1].label = "England"
    /\ menu[2] = [label |-> "Favourite leagues", options |-> <<Option(1)>>]
    /\ menu[3].label = "Spain"
    /\ Len(leagues) = 3


InFlight(r) == Queued(r) \cup Running(r)

\* C12: no request for a season page is submitted while a request for a league
\* page is queued or running, 'seasons' is written only after the _crawl of
\* the league pages returned its full list, and 'teams' only after the _crawl
\* of the season pages returned its full list
C12_RoundsDoNotOverlap ==
    /\ future["seasons"] # <<>> =>
          /\ InFlight("leagues") = {}
          /\ Len(future["leagues"]) = Len(leagues)
          /\ round = "seasons"
    /\ (\E l \in 1..Len(leagues) : HasKey(leagues[l], "seasons")) =>
          /\ Len(leagues_mp) = Len(leagues)
          /\ \A i \in 1..Len(leagues) : future["leagues"][i].state = "done"
    /\ (\E l \in 1..Len(leagues) :
           /\ HasKey(leagues[l], "seasons")
           /\ \E j \in 1..Len(leagues[l].seasons) :
                 HasKey(leagues[l].seasons[j], "teams")) =>
          /\ round = "seasons"
          /\ Len(seasons_mpgs) = Len(urls)
          /\ Len(future["seasons"]) = Len(urls)
          /\ InFlight("seasons") = {}

C12_Witness ==
    /\ round = "seasons"
    /\ pc = "crawl"
    /\ Len(leagues) = 2
    /\ SeasonsSet
    /\ Cardinality(Running("seasons")) = 2
    /\ Queued("seasons") # {}


\* _crawl has ended: it returned its list, or it raised and the caller turned
\* the exception into SystemExit
CrawlHasEnded == CrawlHasReturned \/ pc = "exit"

\* C13 as stated: when _crawl ends, by return or by raising, every request of
\* the round has been submitted and none is still queued or running
C13_AllAwaited ==
    CrawlHasEnded =>
        /\ Len(future[round]) = Len(urls)
        /\ InFlight(round) = {}

\* C13 amended: when _crawl returns, every request of the round has completed;
\* when it raises, every request was submitted, the requests before the first
\* failed one in list order have completed and that one has failed, while the
\* requests after it are not awaited and may still be queued or running
C13_AwaitedUpToFailure ==
    /\ CrawlHasReturned =>
          /\ Len(future[round]) = Len(urls)
          /\ InFlight(round) = {}
          /\ Failed(round) = {}
    /\ pc = "exit" =>
          /\ Len(future[round]) = Len(urls)
          /\ \A j \in 1..Len(result) : future[round][j].state = "done"
          /\ future[round][Len(result) + 1].state = "failed"
          /\ InFlight(round) \subseteq (Len(result) + 2)..Len(urls)

C13_Witness ==
    /\ pc = "exit"
    /\ round = "seasons"
    /\ Len(result) = 1
    /\ Running(round) # {}
    /\ Queued(round) # {}


\* a request leaves the queue only by being taken by a worker, and leaves a
\* worker only by finishing
ExecutedInTurn ==
    \A r \in Rounds : \A k \in 1..Len(future[r]) :
       /\ (k \in Queued(r) /\ k \notin Queued(r)') => k \in Running(r)'
       /\ (k \in Running(r) /\ k \notin Running(r)') => k \in Finished(r)'
       /\ k \in Finished(r) => k \in Finished(r)'

\* C14: in every round at most WORKERS requests run at the same time, however
\* many urls were submitted, and every submitted request is eventually
\* executed: from some point on none is left queued or running, and a request
\* leaves the queue only through a worker
C14_BoundedPool ==
    /\ [](\A r \in Rounds : Cardinality(Running(r)) <= WORKERS)
    /\ [][ExecutedInTurn]_vars
    /\ <>[](\A r \in Rounds : InFlight(r) = {})

C14_Witness ==
    /\ pc = "crawl"
    /\ Len(future[round]) = Len(urls)
    /\ Cardinality(Running(round)) = WORKERS
    /\ Cardinality(Queued(round)) >= 2


\* the url list of a round: line 92-94 for the league pages, the argument of
\* the running _crawl for the season pages
RoundUrls(r) == IF r = "leagues" THEN LeaguesUrls(leagues) ELSE urls

\* C15: every request issued in a round is the one request for its position
\* of the round's url list, every position has its request once the first
\* loop of _crawl is over, a failed request is never issued again, and after a
\* failure among the league pages no request for a season page is ever issued
C15_NoRetry ==
    /\ [](\A r \in Rounds :
            /\ Len(future[r]) <= Len(RoundUrls(r))
            /\ \A k \in 1..Len(future[r]) : future[r][k].url = RoundUrls(r)[k])
    /\ []((round \in Rounds /\ pc # "crawl") => Len(future[round]) = Len(urls))
    /\ [](Failed("leagues") # {} => (round = "leagues" /\ future["seasons"] = <<>>))
    /\ [](Failed("seasons") # {} => pc \in {"crawl", "exit"})
    /\ [][\A r \in Rounds :
            /\ Len(future'[r]) >= Len(future[r])
            /\ \A k \in Failed(r) : future'[r][k] = future[r][k]]_vars

C15_Witness ==
    /\ pc = "exit"
    /\ round = "leagues"
    /\ Len(leagues) = 2
    /\ future["leagues"][1].state = "failed"
    /\ future["leagues"][2].state = "done"
    /\ future["seasons"] = <<>>


\* C16: once 'seasons' is assigned for all leagues and _crawl_seasons is
\* entered, every league has at least one season, and the flat list of season
\* urls is as long as the sum of the leagues' season counts, which is at least
\* the number of leagues
C16_EveryLeagueHasASeason ==
    round = "seasons" =>
        /\ SeasonsSet
        /\ \A l \in 1..Len(leagues) : Len(leagues[l].seasons) >= 1
        /\ Len(urls) = Offset(leagues, Len(leagues) + 1)
        /\ Len(urls) >= Len(leagues)
        /\ urls = SeasonUrls(leagues)

C16_Witness ==
    /\ round = "seasons"
    /\ Len(leagues) = 2
    /\ \E l \in 1..2 : /\ Len(leagues[l].seasons) = 1
                       /\ leagues[l].seasons[1].year = CURRENT_SEASON
    /\ \E l \in 1..2 : Len(leagues[l].seasons) = 2
    /\ Len(urls) = 3


\* the seasons before season si of league li, in the order of lines 80-81
Consumed(l, j) == Offset(leagues, l) + j - 1

\* C17: in the loop of lines 80-83 the index is the number of seasons already
\* given their teams, it is inside seasons_mpgs whenever a season is still to
\* be served, season number n in list order took entry n of seasons_mpgs, and
\* on return the index is the length of seasons_mpgs
C17_IndexInRange ==
    /\ exc # "IndexError"
    /\ pc = "assign_teams" =>
          /\ index <= Len(seasons_mpgs)
          /\ li <= Len(leagues) =>
                /\ index < Len(seasons_mpgs)
                /\ si \in 1..Len(leagues[li].seasons)
                /\ index = Consumed(li, si)
          /\ li > Len(leagues) => index = Len(seasons_mpgs)
          /\ \A l \in 1..Len(leagues) : \A j \in 1..Len(leagues[l].seasons) :
                LET season == leagues[l].seasons[j]
                IN /\ HasKey(season, "teams") <=> Consumed(l, j) < index
                   /\ HasKey(season, "teams") =>
                         season.teams = _get_teams(seasons_mpgs[Consumed(l, j) + 1])
    /\ pc = "returned" =>
          /\ index = Len(seasons_mpgs)
          /\ index = Offset(leagues, Len(leagues) + 1)

C17_Witness ==
    /\ pc = "returned"
    /\ Len(leagues) = 2
    /\ Len(seasons_mpgs) = 4
    /\ index = 4


SameAt(d, e, key) == HasKey(d, key) /\ HasKey(e, key) /\ d[key] = e[key]

\* a step of analyze_leagues keeps a season's year and url, and its teams if
\* it has them, and adds no key but 'teams'
SeasonKept(season, after) ==
    /\ SameAt(season, after, "year")
    /\ SameAt(season, after, "url")
    /\ HasKey(season, "teams") => SameAt(season, after, "teams")
    /\ DOMAIN after \subseteq DOMAIN season \cup {"teams"}

\* a step of analyze_leagues keeps a league's country, name and url, and its
\* seasons if it has them, and adds no key but 'seasons'
LeagueKept(league, after) ==
    /\ \A key \in {"country", "name", "url"} : SameAt(league, after, key)
    /\ DOMAIN after \subseteq DOMAIN league \cup {"seasons"}
    /\ HasKey(league, "seasons") =>
          /\ HasKey(after, "seasons")
          /\ Len(after.seasons) = Len(league.seasons)
          /\ \A j \in 1..Len(league.seasons) :
                SeasonKept(league.seasons[j], after.seasons[j])

AnalyzeStep ==
    /\ Len(leagues') = Len(leagues)
    /\ \A l \in 1..Len(leagues) : LeagueKept(leagues[l], leagues'[l])
    /\ pc \in {"got_leagues", "crawl"} => leagues' = leagues
    /\ pc = "assign_seasons" =>
          \A l \in 1..Len(leagues) :
             HasKey(leagues[l], "seasons") => leagues'[l] = leagues[l]
    /\ pc = "assign_teams" =>
          \A l \in 1..Len(leagues) : DOMAIN leagues'[l] = DOMAIN leagues[l]

\* C18: every step of analyze_leagues keeps the number and order of the
\* leagues and each league's country, name and url, and keeps the year and url
\* of every season already assigned; the steps of line 76 add only 'seasons'
\* and the steps of line 82 add only 'teams'
C18_OnlyAddsFields == [][pc # "get_leagues" => AnalyzeStep]_vars

C18_Witness ==
    /\ pc = "assign_teams"
    /\ Len(leagues) = 2
    /\ li = 2
    /\ HasKey(leagues[1].seasons[1], "teams")
    /\ ~HasKey(leagues[2].seasons[1], "teams")
    /\ \A l \in 1..2 : leagues[l].url = AllLeagues(menu)[l].url


\* C19: once analyze_leagues is called it is never stuck short of an end, and
\* its only ends are the return of the league list and the SystemExit raised
\* for a failed request
C19_ReturnsOrAborts ==
    round \in Rounds => (pc \in {"returned", "exit"} \/ ENABLED Next)

====
